---- MODULE Spec2Model ----
(***************************************************************************)
(* Model of kafkaconnect.s3_sink.cli.create_s3_sink                        *)
(* (src/src/kafkaconnect/s3_sink/cli.py): the one-shot apply of the S3     *)
(* sink connector configuration and the --auto-update loop.                *)
(*                                                                         *)
(* The command is a single sequential thread; pc is its position.  The     *)
(* Kafka broker (Topic(...).names), the Connect service (validate /        *)
(* create_or_update) and the user (KeyboardInterrupt) are the environment: *)
(* their answers are chosen nondeterministically at each call.             *)
(***************************************************************************)
EXTENDS Integers, Sequences, FiniteSets, TLC

\* ---------------------------------------------------------------- bounds
NumTopics == 3
MaxTopicList == 2
MaxDiscovered == 2
MaxErrorCount == 1
MaxTicks == 2

TopicNames == <<"a", "b", "c", "d", "e">>
Topics == {TopicNames[i] : i \in 1..NumTopics}

\* ------------------------------------------------------------- helpers
Range(s) == {s[i] : i \in DOMAIN s}

SeqsUpTo(S, n) == UNION {[1..k -> S] : k \in 0..n}

IsInjective(s) == \A i, j \in DOMAIN s : s[i] = s[j] => i = j

\* The variadic TOPICLIST argument: any tuple of names, repeats allowed.
TopicLists == SeqsUpTo(Topics, MaxTopicList)

\* Topic(...).names: the broker's topic names, each once, in some order.
DiscoveredLists == {s \in SeqsUpTo(Topics, MaxDiscovered) : IsInjective(s)}

\* Raw bodies connect.validate can return.  "json" is a JSON object with an
\* integer error_count; "json_nokey" is JSON without that key (KeyError);
\* "json_badcount" is JSON whose error_count is not a number (TypeError at
\* the comparison); "text" is not JSON at all (JSONDecodeError).
NoCount == -1
ValidationBodies ==
    {[kind |-> "json", error_count |-> n] : n \in 0..MaxErrorCount}
    \cup {[kind |-> k, error_count |-> NoCount] :
            k \in {"json_nokey", "json_badcount", "text"}}

\* json.loads(validation)["error_count"] raises for these bodies.
LoadsRaises(body) == body.kind \in {"json_nokey", "text"}

\* error_count > 0 raises TypeError when error_count is not a number.
CompareRaises(body) == body.kind = "json_badcount"

\* S3Config.update_topics(topics): replaces the topics field, nothing else.
update_topics(cfg, tl) == [cfg EXCEPT !.topics = tl]

\* set(current_topics) - set(topics)
new_topics(cur, old) == Range(cur) \ Range(old)

NoRemote == <<"?">>
NotFound == -1
NoBody == [kind |-> "none", error_count |-> NoCount]

\* Variant of line 274 without the emptiness test.
HasTopicsAlways(tl) == TRUE

\* line 274: if topics
HasTopics(tl) == tl # <<>>

\* Variant of lines 302-304 whose except branch also returns 0.
CommitReturnAlwaysZero(body) == "return0"

\* lines 293-304: the value returned after connect.validate answered body.
\* The return 0 of line 301 is at the level of the try block, so it is
\* taken for every error_count; lines 305-306 (the upload) are never reached.
CommitReturn(body) ==
    IF LoadsRaises(body) \/ CompareRaises(body) THEN "return1" ELSE "return0"

\* Variant of lines 315-316 that reacts to any change of the topic set.
NeedsUpdateOnChange(cur, old) == Range(cur) # Range(old)

\* line 316: if new_topics
NeedsUpdate(cur, old) == new_topics(cur, old) # {}

\* One call of the Connect service, as recorded in log.
Call(op, tl, ok, body, t) ==
    [op |-> op, topics |-> tl, ok |-> ok, body |-> body, tick |-> t]

VARIABLES
    topiclist,      \* TOPICLIST argument
    validate,       \* --validate
    dry_run,        \* --dry-run
    auto_update,    \* --auto-update
    pc,             \* position in create_s3_sink
    topics,         \* local variable topics (lastApplied in the loop)
    current_topics, \* local variable current_topics of the running tick
    s3config,       \* the S3Config object (only its topics field changes)
    remote,         \* topic list of the connector held by the Connect service
    log,            \* calls made to the Connect service, in order
    found,          \* n of "Found n topics.", NotFound when not echoed
    shown,          \* raw validation bodies echoed
    printed,        \* configuration documents echoed
    counts,         \* k of "Validation returned k error(s)."
    result,         \* how the command ended
    ticks,          \* number of loop iterations started
    tick0           \* history: topics, s3config and remote when the running
                    \* tick started (line 309 returned)

vars == <<topiclist, validate, dry_run, auto_update, pc, topics,
          current_topics, s3config, remote, log, found, shown, printed,
          counts, result, ticks, tick0>>

inputs == <<topiclist, validate, dry_run, auto_update>>
echoes == <<found, shown, printed, counts>>

Init ==
    /\ topiclist \in TopicLists
    /\ validate \in BOOLEAN
    /\ dry_run \in BOOLEAN
    /\ auto_update \in BOOLEAN
    /\ pc = "start"
    /\ topics = <<>>
    /\ current_topics = <<>>
    /\ s3config = [topics |-> <<>>]
    /\ remote = NoRemote
    /\ log = <<>>
    /\ found = NotFound
    /\ shown = {}
    /\ printed = {}
    /\ counts = {}
    /\ result = "running"
    /\ ticks = 0
    /\ tick0 = [topics |-> <<>>, config |-> [topics |-> <<>>],
                remote |-> NoRemote]

\* lines 267-268: topics = list(topiclist); if not topics
Start ==
    /\ pc = "start"
    /\ topics' = topiclist
    /\ pc' = IF topiclist = <<>> THEN "discover" ELSE "apply"
    /\ UNCHANGED <<tick0, inputs, current_topics, s3config, remote, log, echoes,
                   result, ticks>>

Finish(r) ==
    /\ pc' = "done"
    /\ result' = r

\* lines 269-272: Topic(...).names answers; "Found n topics."
Discover ==
    /\ pc = "discover"
    /\ \E names \in DiscoveredLists :
         /\ topics' = names
         /\ found' = Len(names)
    /\ pc' = "apply"
    /\ UNCHANGED <<tick0, inputs, current_topics, s3config, remote, log, shown,
                   printed, counts, result, ticks>>

\* line 270: Topic(...).names raises (broker unreachable, invalid regex)
DiscoverFails ==
    /\ pc = "discover"
    /\ Finish("exception")
    /\ UNCHANGED <<tick0, inputs, topics, current_topics, s3config, remote, log,
                   echoes, ticks>>

\* line 274: topics is empty, the whole apply block is skipped
ApplyEmpty ==
    /\ pc = "apply"
    /\ ~HasTopics(topics)
    /\ pc' = "auto_update"
    /\ UNCHANGED <<tick0, inputs, topics, current_topics, s3config, remote, log,
                   echoes, result, ticks>>

\* Variant of lines 277-284 without the return 0 of line 284.
ApplyValidateNoReturn ==
    /\ pc = "apply"
    /\ HasTopics(topics)
    /\ validate
    /\ s3config' = update_topics(s3config, topics)
    /\ \E body \in ValidationBodies :
         /\ log' = Append(log, Call("validate", s3config'.topics, TRUE,
                                    body, ticks))
         /\ shown' = shown \cup {body}
    /\ pc' = "auto_update"
    /\ UNCHANGED <<tick0, inputs, topics, current_topics, remote, found, printed,
                   counts, result, ticks>>

\* lines 275-284: --validate echoes the raw answer of connect.validate
ApplyValidate ==
    /\ pc = "apply"
    /\ HasTopics(topics)
    /\ validate
    /\ s3config' = update_topics(s3config, topics)
    /\ \E body \in ValidationBodies :
         /\ log' = Append(log, Call("validate", s3config'.topics, TRUE,
                                    body, ticks))
         /\ shown' = shown \cup {body}
    /\ Finish("return0")
    /\ UNCHANGED <<tick0, inputs, topics, current_topics, remote, found, printed,
                   counts, ticks>>

\* lines 279-282 and 290-292: connect.validate raises; nothing catches it
ApplyValidateFails ==
    /\ pc = "apply"
    /\ HasTopics(topics)
    /\ validate \/ ~dry_run
    /\ s3config' = update_topics(s3config, topics)
    /\ log' = Append(log, Call("validate", s3config'.topics, FALSE, NoBody,
                               ticks))
    /\ Finish("exception")
    /\ UNCHANGED <<tick0, inputs, topics, current_topics, remote, echoes, ticks>>

\* lines 285-288: --dry-run echoes the configuration document
ApplyDryRun ==
    /\ pc = "apply"
    /\ HasTopics(topics)
    /\ ~validate
    /\ dry_run
    /\ s3config' = update_topics(s3config, topics)
    /\ printed' = printed \cup {s3config'}
    /\ Finish("return0")
    /\ UNCHANGED <<tick0, inputs, topics, current_topics, remote, log, found,
                   shown, counts, ticks>>

\* lines 289-304: validate, then parse the answer and return
ApplyCommit ==
    /\ pc = "apply"
    /\ HasTopics(topics)
    /\ ~validate
    /\ ~dry_run
    /\ s3config' = update_topics(s3config, topics)
    /\ \E body \in ValidationBodies :
         /\ log' = Append(log, Call("validate", s3config'.topics, TRUE,
                                    body, ticks))
         \* line 295 is reached when json.loads(...)["error_count"] worked
         /\ counts' = IF LoadsRaises(body) THEN counts
                      ELSE counts \cup {body.error_count}
         \* line 303: except Exception echoes the raw answer
         /\ shown' = IF CommitReturn(body) = "return1"
                     THEN shown \cup {body} ELSE shown
         /\ Finish(CommitReturn(body))
    /\ UNCHANGED <<tick0, inputs, topics, current_topics, remote, found, printed,
                   ticks>>

\* Variant of line 307 that enters the loop whatever --auto-update says.
CheckAutoUpdateAlways ==
    /\ pc = "auto_update"
    /\ pc' = "sleep"
    /\ UNCHANGED <<tick0, inputs, topics, current_topics, s3config, remote, log,
                   echoes, result, ticks>>

\* lines 307 and 325: if auto_update ... return 0
CheckAutoUpdate ==
    /\ pc = "auto_update"
    /\ IF auto_update
       THEN pc' = "sleep" /\ UNCHANGED result
       ELSE Finish("return0")
    /\ UNCHANGED <<tick0, inputs, topics, current_topics, s3config, remote, log,
                   echoes, ticks>>

\* line 309: time.sleep(check_interval / 1000) returns, a tick starts
Sleep ==
    /\ pc = "sleep"
    /\ ticks < MaxTicks
    /\ ticks' = ticks + 1
    /\ tick0' = [topics |-> topics, config |-> s3config, remote |-> remote]
    /\ pc' = "tick_discover"
    /\ UNCHANGED <<inputs, topics, current_topics, s3config, remote, log,
                   echoes, result>>

\* lines 312-314: current_topics = Topic(...).names
TickDiscover ==
    /\ pc = "tick_discover"
    /\ current_topics' \in DiscoveredLists
    /\ pc' = "diff"
    /\ UNCHANGED <<tick0, inputs, topics, s3config, remote, log, echoes, result,
                   ticks>>

\* lines 312-314: Topic(...).names raises; only KeyboardInterrupt is caught
\* at line 323, so the exception leaves the loop and the command
TickDiscoverFails ==
    /\ pc = "tick_discover"
    /\ Finish("exception")
    /\ UNCHANGED <<tick0, inputs, topics, current_topics, s3config, remote, log,
                   echoes, ticks>>

\* Variant of lines 315-322 with the assignment of line 322 outside the
\* if new_topics block: a tick without new topics assigns topics too.
DiffAssignAlways ==
    /\ pc = "diff"
    /\ pc' = IF NeedsUpdate(current_topics, topics) THEN "update" ELSE "sleep"
    /\ topics' = IF NeedsUpdate(current_topics, topics) THEN topics
                  ELSE current_topics
    /\ UNCHANGED <<tick0, inputs, current_topics, s3config, remote, log,
                   echoes, result, ticks>>

\* lines 315-316: new_topics = list(set(current_topics) - set(topics))
Diff ==
    /\ pc = "diff"
    /\ pc' = IF NeedsUpdate(current_topics, topics) THEN "update" ELSE "sleep"
    /\ UNCHANGED <<tick0, inputs, topics, current_topics, s3config, remote, log,
                   echoes, result, ticks>>

\* Variant of lines 318-322 with the assignment of line 322 made before the
\* create_or_update call.
UpdateTopicsAndAssign ==
    /\ pc = "update"
    /\ s3config' = update_topics(s3config, current_topics)
    /\ topics' = current_topics
    /\ pc' = "upsert"
    /\ UNCHANGED <<tick0, inputs, current_topics, remote, log, echoes,
                   result, ticks>>

\* Variant of line 318 that adds the new topics to the applied ones instead
\* of sending the discovered list.
UpdateTopicsMerged ==
    /\ pc = "update"
    /\ s3config' = update_topics(s3config,
                     topics \o SelectSeq(current_topics,
                                         LAMBDA t : t \notin Range(topics)))
    /\ pc' = "upsert"
    /\ UNCHANGED <<tick0, inputs, topics, current_topics, remote, log, echoes,
                   result, ticks>>

\* lines 317-318: s3config.update_topics(current_topics)
UpdateTopics ==
    /\ pc = "update"
    /\ s3config' = update_topics(s3config, current_topics)
    /\ pc' = "upsert"
    /\ UNCHANGED <<tick0, inputs, topics, current_topics, remote, log, echoes,
                   result, ticks>>

\* lines 319-321: connect.create_or_update succeeds
Upsert ==
    /\ pc = "upsert"
    /\ log' = Append(log, Call("upsert", s3config.topics, TRUE, NoBody,
                               ticks))
    /\ remote' = s3config.topics
    /\ pc' = "assign"
    /\ UNCHANGED <<tick0, inputs, topics, current_topics, s3config, echoes, result,
                   ticks>>

\* lines 319-321: connect.create_or_update raises; not caught at line 323
UpsertFails ==
    /\ pc = "upsert"
    /\ log' = Append(log, Call("upsert", s3config.topics, FALSE, NoBody,
                               ticks))
    /\ Finish("exception")
    /\ UNCHANGED <<tick0, inputs, topics, current_topics, s3config, remote, echoes,
                   ticks>>

\* Variant of the tick without the assignment of line 322.
AssignNothing ==
    /\ pc = "assign"
    /\ pc' = "sleep"
    /\ UNCHANGED <<tick0, inputs, topics, current_topics, s3config, remote, log,
                   echoes, result, ticks>>

\* line 322: topics = current_topics
Assign ==
    /\ pc = "assign"
    /\ topics' = current_topics
    /\ pc' = "sleep"
    /\ UNCHANGED <<tick0, inputs, current_topics, s3config, remote, log, echoes,
                   result, ticks>>

InTry == {"tick_discover", "diff", "update", "upsert", "assign"}

\* lines 310-324: KeyboardInterrupt inside the try block is turned into
\* click.ClickException("Interruped.")
InterruptInTry ==
    /\ pc \in InTry
    /\ Finish("ClickException")
    /\ UNCHANGED <<tick0, inputs, topics, current_topics, s3config, remote, log,
                   echoes, ticks>>

\* line 309: time.sleep is outside the try block, KeyboardInterrupt raised
\* during the wait is not caught by line 323
InterruptInSleep ==
    /\ pc = "sleep"
    /\ Finish("KeyboardInterrupt")
    /\ UNCHANGED <<tick0, inputs, topics, current_topics, s3config, remote, log,
                   echoes, ticks>>

\* lines 319-321: KeyboardInterrupt while create_or_update is waiting for the
\* answer: the request was sent and the service may or may not have applied it
InterruptInUpsert ==
    /\ pc = "upsert"
    /\ log' = Append(log, Call("upsert", s3config.topics, FALSE, NoBody,
                               ticks))
    /\ remote' \in {remote, s3config.topics}
    /\ Finish("ClickException")
    /\ UNCHANGED <<tick0, inputs, topics, current_topics, s3config, echoes, ticks>>

Next ==
    \/ Start
    \/ Discover
    \/ DiscoverFails
    \/ ApplyEmpty
    \/ ApplyValidate
    \/ ApplyValidateFails
    \/ ApplyDryRun
    \/ ApplyCommit
    \/ CheckAutoUpdate
    \/ Sleep
    \/ TickDiscover
    \/ TickDiscoverFails
    \/ Diff
    \/ UpdateTopics
    \/ Upsert
    \/ UpsertFails
    \/ Assign
    \/ InterruptInTry
    \/ InterruptInSleep
    \/ InterruptInUpsert

Spec == Init /\ [][Next]_vars

\* The same command line is run a second time after a Commit apply returned
\* 0 (lines 209-325 from the top): a new process with new locals and a new
\* S3Config; the Connect service keeps its state and log keeps the calls of
\* the first run.
Rerun ==
    /\ pc = "done"
    /\ result = "return0"
    /\ ~validate
    /\ ~dry_run
    /\ ticks = 0
    /\ Len(log) = 1
    /\ pc' = "start"
    /\ result' = "running"
    /\ topics' = <<>>
    /\ current_topics' = <<>>
    /\ s3config' = [topics |-> <<>>]
    /\ found' = NotFound
    /\ shown' = {}
    /\ printed' = {}
    /\ counts' = {}
    /\ UNCHANGED <<tick0, inputs, remote, log, ticks>>

NextTwice ==
    \/ Next
    \/ Rerun

SpecTwice == Init /\ [][NextTwice]_vars

\* ------------------------------------------------------------ properties
\* Positions of the calls of one kind in log.
Calls(op) == {i \in DOMAIN log : log[i].op = op}

OkUpserts == {i \in Calls("upsert") : log[i].ok}

LastOkUpsert == CHOOSE i \in OkUpserts : \A j \in OkUpserts : j <= i

\* A validate call that answered a JSON body with error_count 0.
IsClean(c) ==
    c.op = "validate" /\ c.ok /\ c.body.kind = "json" /\ c.body.error_count = 0

\* A validate call whose answer has no usable error_count.
IsUnparsed(c) ==
    c.op = "validate" /\ c.ok /\ c.body.kind # "json"

CommitMode == ~validate /\ ~dry_run

LoopPcs == {"sleep", "tick_discover", "diff", "update", "upsert", "assign"}

\* The one-shot apply was handed a non-empty topic set and has ended the
\* command.  topics still is that set: only a tick assigns it again.
ApplyEnded == pc = "done" /\ ticks = 0 /\ topics # <<>>

\* C1: for a non-empty topic set, a Commit apply calls validate before any
\* upsert and calls upsert if and only if validation answered error_count 0.
C1_UpsertIffClean ==
    (CommitMode /\ ApplyEnded) =>
        /\ \A i \in Calls("upsert") : \E j \in Calls("validate") : j < i
        /\ (Calls("upsert") # {}) <=> (\E j \in DOMAIN log : IsClean(log[j]))

\* C2: a Commit apply returns 0 only if validate answered error_count 0 and
\* an upsert was issued and succeeded.
C2_SuccessNeedsUpsert ==
    (CommitMode /\ ApplyEnded /\ result = "return0") =>
        /\ \E j \in DOMAIN log : IsClean(log[j])
        /\ OkUpserts # {}

\* C3: when the topic list is empty and discovery answers nothing, the apply
\* makes no validate and no upsert call and "Found 0 topics." is reported.
C3_EmptyApplyNoCalls ==
    (/\ pc \in {"apply", "auto_update", "sleep", "done"}
     /\ ticks = 0
     /\ topics = <<>>
     /\ result # "exception") =>
        /\ log = <<>>
        /\ remote = NoRemote
        /\ found = 0

C3_Witness ==
    /\ pc = "done"
    /\ result = "return0"
    /\ topiclist = <<>>
    /\ topics = <<>>
    /\ found = 0
    /\ log = <<>>

\* C4: with --dry-run no validate and no upsert call is ever made, whatever
\* the topics and the other flags, and the configuration document is echoed.
C4_DryRunNoCalls ==
    dry_run =>
        /\ log = <<>>
        /\ (pc = "done" /\ result = "return0") => printed = {s3config}

\* C5: with --validate and a non-empty topic set the apply calls validate
\* exactly once, echoes its raw answer, returns 0 without any upsert and
\* without reaching the loop.
C5_ValidateOnly ==
    [][(pc = "apply" /\ topics # <<>> /\ validate) =>
        /\ pc' = "done"
        /\ Len(log') = 1
        /\ log'[1].op = "validate"
        /\ log'[1].topics = topics
        /\ remote' = NoRemote
        /\ ticks' = 0
        /\ log'[1].ok => (result' = "return0" /\ shown' = {log'[1].body})]_vars

C5_Witness ==
    /\ validate
    /\ ApplyEnded
    /\ result = "return0"
    /\ Len(log) = 1
    /\ log[1].op = "validate"
    /\ shown = {log[1].body}

\* C6: in Commit mode, when the validation answer has no usable error_count
\* the raw answer is echoed, the command returns 1 and no upsert is issued.
C6_UnparsedFails ==
    (CommitMode /\ ApplyEnded /\ \E j \in DOMAIN log : IsUnparsed(log[j])) =>
        /\ result = "return1"
        /\ \A j \in DOMAIN log : IsUnparsed(log[j]) => log[j].body \in shown
        /\ Calls("upsert") = {}
        /\ remote = NoRemote

C6_Witness ==
    /\ CommitMode
    /\ ApplyEnded
    /\ Len(log) = 1
    /\ IsUnparsed(log[1])
    /\ log[1].body.kind = "text"
    /\ result = "return1"
    /\ shown = {log[1].body}

InLoop == pc \in LoopPcs \/ ticks > 0

\* C7 as claimed: every run that reaches the loop has made, before the first
\* tick, a validate call answering error_count 0 and a successful upsert.
C7_LoopAfterUpsert ==
    InLoop =>
        /\ auto_update
        /\ \E j \in DOMAIN log : log[j].tick = 0 /\ IsClean(log[j])
        /\ \E j \in OkUpserts : log[j].tick = 0

\* C7 as amended: every run that reaches the loop was started with
\* --auto-update and its first apply did not fail: before the first tick no
\* validate or upsert call failed and no validation answered errors or an
\* unparsed body (the apply may have been the no-op for an empty topic set).
C7_LoopAfterUnfailedApply ==
    InLoop =>
        /\ auto_update
        /\ \A j \in DOMAIN log :
             log[j].tick = 0 =>
                 /\ log[j].ok
                 /\ log[j].op = "validate" => IsClean(log[j])

C7_Witness ==
    /\ pc = "tick_discover"
    /\ ticks = 1
    /\ auto_update
    /\ log = <<>>

\* C8: with --auto-update, once the Commit apply of a non-empty topic set
\* has validated with error_count 0, the command does not end before the
\* first tick of the loop.
C8_LoopFollowsCommit ==
    (/\ auto_update
     /\ CommitMode
     /\ topics # <<>>
     /\ ticks = 0
     /\ \E j \in DOMAIN log : IsClean(log[j])) =>
        pc # "done"

\* C9: on a tick with lastApplied S0 and discovered S1, no upsert is issued
\* when S1 is a subset of S0; otherwise exactly one upsert is issued and it
\* carries the whole of S1.
C9_DiffLaw ==
    [][/\ (pc = "diff" /\ Range(current_topics) \subseteq Range(topics)) =>
              (log' = log /\ pc' \in {"sleep", "done"})
       /\ (pc = "diff" /\ ~(Range(current_topics) \subseteq Range(topics))) =>
              (log' = log /\ pc' \in {"update", "done"})
       /\ pc = "update" => (log' = log /\ pc' \in {"upsert", "done"})
       /\ (pc = "upsert" /\ pc' # "done") => log' # log
       /\ (pc \in LoopPcs /\ log' # log) =>
              /\ ~(Range(current_topics) \subseteq Range(topics))
              /\ \A i \in Calls("upsert") : log[i].tick # ticks
              /\ Len(log') = Len(log) + 1
              /\ log'[Len(log')].op = "upsert"
              /\ log'[Len(log')].tick = ticks
              /\ log'[Len(log')].topics = current_topics
       /\ (pc \in LoopPcs /\ remote' # remote) => remote' = current_topics
      ]_vars

C9_Witness ==
    /\ pc = "assign"
    /\ topics # <<>>
    /\ Range(topics) \cap Range(current_topics) # {}
    /\ ~(Range(current_topics) \subseteq Range(topics))
    /\ log[Len(log)].op = "upsert"
    /\ log[Len(log)].tick = ticks
    /\ log[Len(log)].topics = current_topics
    /\ remote = current_topics

\* C10: after a successful upsert and until the next one, topics
\* (lastApplied) is the topic list carried by the most recent successful
\* upsert and is the remote connector's topic list.  The position between
\* the return of create_or_update (line 321) and the assignment of line 322
\* belongs to the upsert step; a command ended by an interrupt inside the
\* tick has discarded lastApplied.
C10_LastApplied ==
    (OkUpserts # {} /\ pc # "assign" /\ result # "ClickException") =>
        /\ topics = log[LastOkUpsert].topics
        /\ topics = remote

C10_Witness ==
    /\ pc = "diff"
    /\ ticks = 2
    /\ OkUpserts # {}
    /\ topics = log[LastOkUpsert].topics
    /\ topics = remote
    /\ current_topics # topics

\* The last call made to the Connect service is an upsert of the running
\* tick that raised (not one cut short by an interrupt).
UpsertFailed ==
    /\ result = "exception"
    /\ log # <<>>
    /\ log[Len(log)].op = "upsert"
    /\ ~log[Len(log)].ok
    /\ log[Len(log)].tick = ticks

\* C11: when the upsert of a tick fails, lastApplied is unchanged and the
\* loop keeps running: the tick ends at the timer wait, from where the next
\* tick recomputes the same delta and calls upsert again.
C11_FailedUpsertRetried ==
    [][(pc = "upsert" /\ pc' # "assign" /\ result' # "ClickException") =>
        /\ pc' = "sleep"
        /\ result' = "running"
        /\ topics' = topics]_vars

\* C12: when discovery fails on a tick, lastApplied is unchanged, no upsert
\* is issued and the loop goes on to the next tick.
C12_FailedDiscoverySkipped ==
    [][(pc = "tick_discover" /\ pc' # "diff" /\ result' # "ClickException") =>
        /\ pc' = "sleep"
        /\ result' = "running"
        /\ topics' = topics
        /\ log' = log]_vars

\* C13: an interrupt delivered while the loop runs, during the timer wait
\* or during a tick, ends the loop through its own handler (the
\* ClickException of line 324), after which no call is made.
C13_InterruptHandled ==
    [][(pc \in LoopPcs /\ result' \in {"ClickException", "KeyboardInterrupt"}) =>
        /\ result' = "ClickException"
        /\ pc' = "done"]_vars

\* C14: applying the same non-empty topic set twice in Commit mode, with
\* error_count 0 both times, makes two upsert calls with the same payload,
\* and the remote topic list is the one applied.
C14_TwiceSameUpsert ==
    (/\ CommitMode
     /\ ApplyEnded
     /\ Cardinality(Calls("validate")) = 2
     /\ \A j \in Calls("validate") : IsClean(log[j]) /\ log[j].topics = topics) =>
        /\ Cardinality(Calls("upsert")) = 2
        /\ \A i \in Calls("upsert") : log[i].ok /\ log[i].topics = topics
        /\ remote = topics

\* Upsert calls issued by the running tick.
TickUpserts == {i \in Calls("upsert") : log[i].tick = ticks}

\* A tick ended at the timer wait without any upsert: its delta was empty.
NoOpTickEnded == pc = "sleep" /\ ticks >= 1 /\ TickUpserts = {}

\* A tick ended by the exception of Topic(...).names.
DiscoveryFailed ==
    pc = "done" /\ result = "exception" /\ ticks >= 1 /\ TickUpserts = {}

\* C15 as claimed: a tick with an empty delta, a tick whose discovery failed
\* and a tick whose upsert failed all leave lastApplied, the configuration's
\* topic list and the remote topic list as they were when the tick started.
C15_FailedTickChangesNothing ==
    (NoOpTickEnded \/ DiscoveryFailed \/ UpsertFailed) =>
        /\ topics = tick0.topics
        /\ s3config.topics = tick0.config.topics
        /\ remote = tick0.remote

\* C15 as amended: in the loop lastApplied is assigned only by a tick whose
\* upsert succeeded; a tick with an empty delta and a tick whose discovery
\* failed leave lastApplied, the configuration's topic list and the remote
\* list unchanged; a tick whose upsert failed leaves lastApplied and the
\* remote list unchanged, while the configuration's topic list already is the
\* discovered list (line 318 runs before the call).
C15_FailedTickKeepsLastApplied ==
    /\ [][(pc \in LoopPcs /\ topics' # topics) =>
            /\ pc = "assign"
            /\ TickUpserts # {}
            /\ \A i \in TickUpserts : log[i].ok /\ topics' = log[i].topics
         ]_vars
    /\ []((NoOpTickEnded \/ DiscoveryFailed) =>
            /\ topics = tick0.topics
            /\ s3config = tick0.config
            /\ remote = tick0.remote)
    /\ [](UpsertFailed =>
            /\ topics = tick0.topics
            /\ remote = tick0.remote
            /\ s3config.topics = current_topics)

C15_Witness ==
    /\ UpsertFailed
    /\ ticks = 2
    /\ tick0.topics # <<>>
    /\ topics = tick0.topics
    /\ remote = tick0.remote
    /\ s3config.topics = current_topics
    /\ s3config # tick0.config

\* C16: a loop that is not interrupted and whose discovery answers S does
\* not stop before the remote topic list is S, also when an upsert fails:
\* a run ended by a failed upsert has the remote list equal to S.
C16_RemoteReachesDiscovered ==
    (InLoop /\ pc = "done" /\ UpsertFailed) =>
        Range(remote) = Range(current_topics)

\* C17 as claimed: an interrupt never stops the loop between the replacement
\* of the configuration's topic list, the upsert call and the assignment of
\* lastApplied, so a stopped loop shows a tick that fully completed, fully
\* failed or did nothing.
C17_StoppedAtBoundary ==
    /\ [][(pc \in LoopPcs /\ result' \in {"ClickException", "KeyboardInterrupt"})
            => pc \notin {"upsert", "assign"}]_vars
    /\ [](result \in {"ClickException", "KeyboardInterrupt"} =>
            \/ /\ topics = current_topics
               /\ s3config.topics = current_topics
               /\ remote = current_topics
            \/ /\ topics = tick0.topics
               /\ s3config = tick0.config
               /\ remote = tick0.remote
            \/ /\ topics = tick0.topics
               /\ s3config.topics = current_topics
               /\ remote = tick0.remote)

\* C17 as amended: an interrupt delivered while a tick is in progress stops
\* the loop at once, wherever the tick is.  The interruption changes neither
\* lastApplied nor the configuration; at the stop lastApplied is the one of
\* the tick's start, the configuration's topic list is the one of the tick's
\* start or the discovered list, and the remote list is the one of the tick's
\* start or, when the upsert call was reached, the discovered list.
C17_StoppedMidTick ==
    /\ [][(pc \in LoopPcs /\ result' \in {"ClickException", "KeyboardInterrupt"})
            =>
            /\ pc' = "done"
            /\ topics' = topics
            /\ s3config' = s3config
            /\ remote' # remote => (pc = "upsert" /\ remote' = current_topics)
         ]_vars
    /\ [](result = "ClickException" =>
            /\ topics = tick0.topics
            /\ s3config \in {tick0.config,
                             update_topics(tick0.config, current_topics)}
            /\ remote \in {tick0.remote, current_topics}
            /\ remote # tick0.remote => s3config.topics = current_topics)

C17_Witness ==
    /\ result = "ClickException"
    /\ log # <<>>
    /\ log[Len(log)].ok
    /\ log[Len(log)].tick = ticks
    /\ remote = current_topics
    /\ remote # tick0.remote
    /\ topics = tick0.topics
    /\ topics # current_topics

\* C18: every upsert of the run, from the one-shot apply or from a tick, is
\* preceded by a validate call on the same topic list that answered
\* error_count 0.
C18_UpsertAfterCleanValidate ==
    \A i \in Calls("upsert") :
        \E j \in 1..(i - 1) :
            IsClean(log[j]) /\ log[j].topics = log[i].topics

\* C19: the list sent by a tick's upsert is the list discovered on that tick,
\* not merged with lastApplied: after a successful upsert the remote list is
\* the discovered list and lastApplied is assigned that list, so a topic that
\* is no longer discovered is dropped from both.
C19_UpsertNotMerged ==
    (pc \in {"assign", "sleep"} /\ TickUpserts \cap OkUpserts # {}) =>
        /\ log[LastOkUpsert].topics = current_topics
        /\ remote = current_topics
        /\ Range(remote) \cap (Range(tick0.topics) \ Range(current_topics)) = {}
        /\ pc = "sleep" => topics = current_topics

C19_Witness ==
    /\ pc = "sleep"
    /\ ticks = 2
    /\ TickUpserts \cap OkUpserts # {}
    /\ Range(tick0.topics) \ Range(topics) # {}
    /\ topics = current_topics
    /\ remote = topics
====
